---- MODULE Spec2Model ----
(***************************************************************************)
(* Model of the job-board scraping and salary-extraction pipeline:         *)
(*   AnalysisEngine.parse_job_description_with_ai  (src/analysis_engine.py)*)
(*   ScraperService.fetch_page_content             (src/scraper_service.py)*)
(*   ScraperService._extract_job_title_from_page   (src/scraper_service.py)*)
(*   ScraperService.discover_job_links             (src/scraper_service.py)*)
(* The external collaborators (the chat model, the content proxy) are the  *)
(* environment: every step that calls one of them draws its outcome with   *)
(* \E from a finite set of behaviours.                                     *)
(***************************************************************************)
EXTENDS Integers, Sequences, FiniteSets, TLC

VARIABLES
    openaiKey,    \* os.getenv("OPENAI_API_KEY") is set
    jinaKey,      \* os.getenv("JINA_API_KEY") is set
    \* ---- parse_job_description_with_ai
    ppc,          \* position in the function
    pcalls,       \* calls started so far
    presp,        \* the object chain.invoke returned
    pret,         \* what the call handed to its caller
    pprev,        \* presp and pret of the call before this one
    clients,      \* ChatOpenAI(...) constructions so far
    modelCalls,   \* model invocations so far
    \* ---- fetch_page_content
    fpc,          \* position in the function
    fcaller,      \* who called it: "top", "board" or "title"
    furl,         \* the url argument
    retry_count,  \* the retry_count argument
    attempt,      \* the loop variable
    requests,     \* requests.get calls of this call
    waits,        \* time.sleep durations of this call, in seconds
    fseen,        \* what each request of this call came back with
    fbody,        \* response.text of the latest response
    fret,         \* what the call handed to its caller
    \* ---- discover_job_links
    board,        \* the text the proxy serves for board_url
    role_keyword, \* the role_keyword argument: index in KeywordTable, 0 for None
    dpc,          \* position in the function
    candidates,   \* the list of {"text", "url"} candidates
    scan_i,       \* the loop variable i of the scan
    matched_urls, \* the list of matched urls
    checked,      \* urls handed to _extract_job_title_from_page so far
    verdicts,     \* for each of them, whether its title matched
    titles,       \* for each of them, the title extracted: an index of
                  \* CleanTitleTable, 0 for None
    caught,       \* the except clause of line 193 has run
    pauses,       \* pacing time.sleep durations so far, in milliseconds
    faults,       \* failures the environment has injected into this run
    dret,         \* what the call handed to its caller
    \* ---- the web layer: run_bulk_crawl and the scraper branch of seed
    comp_data,    \* the committed rows of the comp_data table
    wpc,          \* for each request, its position in the handler
    wroute,       \* for each request, the route: "bulk" or "seed"
    wleft,        \* for each request, the urls it has still to process
    wsession,     \* for each request, the rows added to db.session, not committed
    saved_count,  \* for each request, the local saved_count
    wret,         \* for each request, the response: "ok", "error", "none"
    persisted     \* history: for each request, the rows its commit added to comp_data

parseVars == <<ppc, pcalls, presp, pret, pprev>>
llmVars == <<clients, modelCalls>>
envVars == <<openaiKey, jinaKey>>
fetchVars ==
    <<fpc, fcaller, furl, retry_count, attempt, requests, waits, fseen, fbody, fret>>
webVars == <<comp_data, wpc, wroute, wleft, wsession, saved_count, wret, persisted>>
discVars ==
    <<board, role_keyword, dpc, candidates, scan_i, matched_urls, checked, verdicts, titles,
      caught, pauses, faults, dret>>

(***************************************************************************)
(* Bounds of the model.                                                    *)
(***************************************************************************)
MaxCalls == 2

(***************************************************************************)
(* Python exceptions: the classes the environment raises and the part of   *)
(* the class hierarchy the except clauses look at.                         *)
(***************************************************************************)
ExcTypes ==
    {"KeyError", "ValueError", "JSONDecodeError", "AttributeError",
     "TypeError", "TimeoutError", "AuthenticationError"}

\* isinstance(e, cls) for an exception of class e
IsInstance(e, cls) ==
    \/ e = cls
    \/ cls = "Exception"
    \/ (cls = "ValueError" /\ e = "JSONDecodeError")

(***************************************************************************)
(* JSON values and the record of parse_job_description_with_ai.            *)
(***************************************************************************)
JStr(s) == [t |-> "str", s |-> s, n |-> 0]
JNum(n) == [t |-> "num", s |-> "", n |-> n]
JNull == [t |-> "null", s |-> "", n |-> 0]

required_keys == <<"job_title", "company", "min", "max">>
RequiredKeySet == {required_keys[i] : i \in DOMAIN required_keys}
NameKeys == {"job_title", "company"}

\* the literal {"job_title": "", "company": "", "min": 0, "max": 0}
DefaultRecord ==
    [k \in RequiredKeySet |-> IF k \in NameKeys THEN JStr("") ELSE JNum(0)]

EmptyDict == [k \in {} |-> JNull]

\* what the model may put under each key of its JSON object
ModelValues(k) ==
    CASE k = "job_title" -> {JStr("Senior Backend Engineer"), JNull, JNum(7)}
      [] k = "company"   -> {JStr("Acme Corp"), JNull}
      [] k = "min"       -> {JNum(150000), JNum(0), JStr("150k"), JNull}
      [] k = "max"       -> {JNum(200000), JStr("200k")}
      [] OTHER           -> {JStr("USD")}

ModelKeys == RequiredKeySet \cup {"currency"}

ModelDicts ==
    UNION {{d \in [K -> UNION {ModelValues(k) : k \in K}] :
               \A k \in K : d[k] \in ModelValues(k)} : K \in SUBSET ModelKeys}

\* result.content as json.loads sees it
Contents ==
    {[form |-> f, obj |-> EmptyDict] : f \in {"text", "list", "str", "num", "null", "nonstr"}}
    \cup {[form |-> "dict", obj |-> d] : d \in ModelDicts}

\* json.loads(result.content): the exception it raises, or "" and the value
JsonLoads(content) ==
    CASE content.form = "text"   -> [exc |-> "JSONDecodeError", val |-> content]
      [] content.form = "nonstr" -> [exc |-> "TypeError", val |-> content]
      [] OTHER                   -> [exc |-> "", val |-> content]

\* the outcome of a call: a returned dict or an exception leaving the function
Return(d) == [kind |-> "return", val |-> d, exc |-> ""]
Raise(e) == [kind |-> "raise", val |-> EmptyDict, exc |-> e]
Pending == [kind |-> "pending", val |-> EmptyDict, exc |-> ""]

\* lines 81-84 with a null under a required key replaced like a missing key
FillMissingKeysResetsNull(parsed) ==
    [k \in DOMAIN parsed \cup RequiredKeySet |->
        IF k \in DOMAIN parsed /\ ~(k \in RequiredKeySet /\ parsed[k] = JNull) THEN parsed[k]
        ELSE IF k \in NameKeys THEN JStr("") ELSE JNum(0)]

\* lines 81-84: the loop that adds the required keys the object lacks
FillMissingKeysSkipLast(parsed) ==
    [k \in DOMAIN parsed \cup (RequiredKeySet \ {required_keys[Len(required_keys)]}) |->
        IF k \in DOMAIN parsed THEN parsed[k]
        ELSE IF k \in NameKeys THEN JStr("") ELSE JNum(0)]

FillMissingKeys(parsed) ==
    [k \in DOMAIN parsed \cup RequiredKeySet |->
        IF k \in DOMAIN parsed THEN parsed[k]
        ELSE IF k \in NameKeys THEN JStr("") ELSE JNum(0)]

\* lines 91-102: the except clauses of the outer try
OuterHandlerNoCatchAll(e) ==
    IF IsInstance(e, "KeyError") THEN Return(DefaultRecord)
    ELSE IF IsInstance(e, "ValueError") THEN Return(DefaultRecord)
    ELSE IF IsInstance(e, "AttributeError") THEN Return(DefaultRecord)
    ELSE Raise(e)

OuterHandler(e) ==
    IF IsInstance(e, "KeyError") THEN Return(DefaultRecord)
    ELSE IF IsInstance(e, "ValueError") THEN Return(DefaultRecord)
    ELSE IF IsInstance(e, "AttributeError") THEN Return(DefaultRecord)
    ELSE IF IsInstance(e, "Exception") THEN Return(DefaultRecord)
    ELSE Raise(e)

\* lines 71-90: the inner try around json.loads and the validation
ParseContent(content) ==
    LET r == JsonLoads(content) IN
    IF r.exc # "" THEN
        IF IsInstance(r.exc, "JSONDecodeError") THEN Return(DefaultRecord)
        ELSE OuterHandler(r.exc)
    ELSE IF r.val.form # "dict" THEN Return(DefaultRecord)
    ELSE Return(FillMissingKeys(r.val.obj))

\* what chain.invoke may do
InvokeOutcomes ==
    {[kind |-> "raise", exc |-> e, content |-> [form |-> "text", obj |-> EmptyDict]] :
        e \in ExcTypes}
    \cup {[kind |-> "noattr", exc |-> "", content |-> [form |-> "text", obj |-> EmptyDict]]}
    \cup {[kind |-> "content", exc |-> "", content |-> c] : c \in Contents}

NoResponse == [kind |-> "none", exc |-> "", content |-> [form |-> "text", obj |-> EmptyDict]]

\* what ChatOpenAI(...) may do: "" is a constructed client
ConstructOutcomes == {"", "ValueError", "TypeError"}

(***************************************************************************)
(* parse_job_description_with_ai, src/analysis_engine.py:40-102            *)
(***************************************************************************)
\* no call before this one
NoCall == [resp |-> NoResponse, out |-> Pending]

\* line 40 with the response of the call before kept in a module-level variable
ParseCallKeepsResponse ==
    /\ ppc = "idle"
    /\ pcalls < MaxCalls
    /\ ppc' = "key"
    /\ pcalls' = pcalls + 1
    /\ presp' = presp
    /\ pret' = Pending
    /\ pprev' = IF pcalls > 0 THEN [resp |-> presp, out |-> pret] ELSE pprev
    /\ UNCHANGED <<webVars, envVars, fetchVars, discVars, llmVars>>

\* line 40: the call; its locals are fresh
ParseCall ==
    /\ ppc = "idle"
    /\ pcalls < MaxCalls
    /\ ppc' = "key"
    /\ pcalls' = pcalls + 1
    /\ presp' = NoResponse
    /\ pret' = Pending
    /\ pprev' = IF pcalls > 0 THEN [resp |-> presp, out |-> pret] ELSE pprev
    /\ UNCHANGED <<webVars, envVars, fetchVars, discVars, llmVars>>

\* lines 42-45: the credential check
ParseCheckKeySkipped ==
    /\ ppc = "key"
    /\ pret' = pret
    /\ ppc' = "construct"
    /\ UNCHANGED <<webVars, envVars, fetchVars, discVars, llmVars, pcalls, presp, pprev>>

ParseCheckKey ==
    /\ ppc = "key"
    /\ IF ~openaiKey
          THEN /\ pret' = Return(DefaultRecord)
               /\ ppc' = "done"
          ELSE /\ pret' = pret
               /\ ppc' = "construct"
    /\ UNCHANGED <<webVars, envVars, fetchVars, discVars, llmVars, pcalls, presp, pprev>>

\* lines 47-67: the client and the prompt are built
ParseConstruct ==
    /\ ppc = "construct"
    /\ \E e \in ConstructOutcomes :
          IF e = ""
             THEN /\ clients' = clients + 1
                  /\ ppc' = "invoke"
                  /\ pret' = pret
             ELSE /\ clients' = clients
                  /\ ppc' = "done"
                  /\ pret' = OuterHandler(e)
    /\ UNCHANGED <<webVars, envVars, fetchVars, discVars, modelCalls, pcalls, presp, pprev>>

\* line 68: chain.invoke
ParseInvoke ==
    /\ ppc = "invoke"
    /\ modelCalls' = modelCalls + 1
    /\ \E r \in InvokeOutcomes :
          /\ presp' = r
          /\ IF r.kind = "raise"
                THEN /\ ppc' = "done"
                     /\ pret' = OuterHandler(r.exc)
                ELSE /\ ppc' = "json"
                     /\ pret' = pret
    /\ UNCHANGED <<webVars, envVars, fetchVars, discVars, clients, pcalls, pprev>>

\* lines 71-90: result.content is read, parsed and validated
ParseJson ==
    /\ ppc = "json"
    /\ pret' = IF presp.kind = "noattr" THEN OuterHandler("AttributeError")
               ELSE ParseContent(presp.content)
    /\ ppc' = "done"
    /\ UNCHANGED <<webVars, envVars, fetchVars, discVars, llmVars, pcalls, presp, pprev>>

\* the caller takes the record; the function may be called again
ParseDone ==
    /\ ppc = "done"
    /\ pcalls < MaxCalls
    /\ ppc' = "idle"
    /\ UNCHANGED <<webVars, envVars, fetchVars, discVars, llmVars, pcalls, presp, pret, pprev>>

(***************************************************************************)
(* Strings.  A Python str is a sequence of one-character strings; the      *)
(* strings a page holds are kept in tables and named by their index.       *)
(***************************************************************************)
UpperLetters ==
    <<"A", "B", "C", "D", "E", "F", "G", "H", "I", "J", "K", "L", "M",
      "N", "O", "P", "Q", "R", "S", "T", "U", "V", "W", "X", "Y", "Z">>

LowerLetters ==
    <<"a", "b", "c", "d", "e", "f", "g", "h", "i", "j", "k", "l", "m",
      "n", "o", "p", "q", "r", "s", "t", "u", "v", "w", "x", "y", "z">>

\* str.lower() on one character
LowerChar(c) ==
    IF \E i \in DOMAIN UpperLetters : UpperLetters[i] = c
    THEN LowerLetters[CHOOSE i \in DOMAIN UpperLetters : UpperLetters[i] = c]
    ELSE c

\* str.lower()
Lower(s) == [i \in 1..Len(s) |-> LowerChar(s[i])]

\* sub in s
Contains(s, sub) ==
    \E i \in 1..(Len(s) - Len(sub) + 1) : SubSeq(s, i, i + Len(sub) - 1) = sub

\* s.startswith(p)
StartsWith(s, p) == Len(s) >= Len(p) /\ SubSeq(s, 1, Len(p)) = p

\* s[:n]
Take(s, n) == SubSeq(s, 1, IF Len(s) < n THEN Len(s) ELSE n)

DigitChars == <<"0", "1", "2", "3", "4", "5", "6", "7", "8", "9">>

RECURSIVE Decimal(_)
\* str(n) for n >= 0
Decimal(n) ==
    IF n < 10 THEN <<DigitChars[n + 1]>>
    ELSE Decimal(n \div 10) \o <<DigitChars[(n % 10) + 1]>>

S_mailto ==
    <<"m", "a", "i", "l", "t", "o">>

S_linkedin ==
    <<"l", "i", "n", "k", "e", "d", "i", "n">>

S_greenhouse ==
    <<"g", "r", "e", "e", "n", "h", "o", "u", "s", "e", ".", "i", "o">>

S_lever ==
    <<"l", "e", "v", "e", "r", ".", "c", "o">>

S_workday ==
    <<"w", "o", "r", "k", "d", "a", "y", ".", "c", "o", "m">>

S_apply ==
    <<"a", "p", "p", "l", "y">>

S_http ==
    <<"h", "t", "t", "p">>

S_engineer ==
    <<"e", "n", "g", "i", "n", "e", "e", "r">>

S_engineering ==
    <<"e", "n", "g", "i", "n", "e", "e", "r", "i", "n", "g">>

S_analyst ==
    <<"a", "n", "a", "l", "y", "s", "t">>

S_analysis ==
    <<"a", "n", "a", "l", "y", "s", "i", "s">>

S_job_title ==
    <<"j", "o", "b", " ", "t", "i", "t", "l", "e", ":">>

S_title ==
    <<"t", "i", "t", "l", "e", ":">>

S_the_job_title_is ==
    <<"t", "h", "e", " ", "j", "o", "b", " ", "t", "i", "t", "l", "e", " ", "i", "s",
      ":">>

\* display texts of the links a board page may hold
TextTable ==
    <<
      \* 1: Apply: Backend Engineer
      <<"A", "p", "p", "l", "y", ":", " ", "B", "a", "c", "k", "e", "n", "d", " ", "E",
        "n", "g", "i", "n", "e", "e", "r">>,
      \* 2: Job
      <<"J", "o", "b">>,
      \* 3: APPLY NOW
      <<"A", "P", "P", "L", "Y", " ", "N", "O", "W">>,
      \* 4: Careers
      <<"C", "a", "r", "e", "e", "r", "s">>,
      \* 5: Apply via LinkedIn
      <<"A", "p", "p", "l", "y", " ", "v", "i", "a", " ", "L", "i", "n", "k", "e", "d",
        "I", "n">>,
      \* 6: Apply by mail
      <<"A", "p", "p", "l", "y", " ", "b", "y", " ", "m", "a", "i", "l">>,
      \* 7: Contact Us
      <<"C", "o", "n", "t", "a", "c", "t", " ", "U", "s">>,
      \* 8: Lever role
      <<"L", "e", "v", "e", "r", " ", "r", "o", "l", "e">>,
      \* 9: Workday role
      <<"W", "o", "r", "k", "d", "a", "y", " ", "r", "o", "l", "e">>,
      \* 10: Opening
      <<"O", "p", "e", "n", "i", "n", "g">>
    >>

\* link targets a board page may hold
FixedHrefs ==
    <<
      \* 1: https://boards.greenhouse.io/acme/123
      <<"h", "t", "t", "p", "s", ":", "/", "/", "b", "o", "a", "r", "d", "s", ".", "g",
        "r", "e", "e", "n", "h", "o", "u", "s", "e", ".", "i", "o", "/", "a", "c", "m",
        "e", "/", "1", "2", "3">>,
      \* 2: https://acme.com/careers/7
      <<"h", "t", "t", "p", "s", ":", "/", "/", "a", "c", "m", "e", ".", "c", "o", "m",
        "/", "c", "a", "r", "e", "e", "r", "s", "/", "7">>,
      \* 3: https://www.linkedin.com/jobs/1
      <<"h", "t", "t", "p", "s", ":", "/", "/", "w", "w", "w", ".", "l", "i", "n", "k",
        "e", "d", "i", "n", ".", "c", "o", "m", "/", "j", "o", "b", "s", "/", "1">>,
      \* 4: https://acme.com/go?to=mailto:hr
      <<"h", "t", "t", "p", "s", ":", "/", "/", "a", "c", "m", "e", ".", "c", "o", "m",
        "/", "g", "o", "?", "t", "o", "=", "m", "a", "i", "l", "t", "o", ":", "h", "r">>,
      \* 5: mailto:hr@acme.com
      <<"m", "a", "i", "l", "t", "o", ":", "h", "r", "@", "a", "c", "m", "e", ".", "c",
        "o", "m">>,
      \* 6: https://jobs.lever.co/acme/1
      <<"h", "t", "t", "p", "s", ":", "/", "/", "j", "o", "b", "s", ".", "l", "e", "v",
        "e", "r", ".", "c", "o", "/", "a", "c", "m", "e", "/", "1">>,
      \* 7: https://acme.myWORKDAY.com/job/2
      <<"h", "t", "t", "p", "s", ":", "/", "/", "a", "c", "m", "e", ".", "m", "y", "W",
        "O", "R", "K", "D", "A", "Y", ".", "c", "o", "m", "/", "j", "o", "b", "/", "2">>,
      \* 8: https://acme.com/about
      <<"h", "t", "t", "p", "s", ":", "/", "/", "a", "c", "m", "e", ".", "c", "o", "m",
        "/", "a", "b", "o", "u", "t">>
    >>

\* role keywords a caller may pass
KeywordTable ==
    <<
      \* 1: engineer
      <<"e", "n", "g", "i", "n", "e", "e", "r">>,
      \* 2: Engineer
      <<"E", "n", "g", "i", "n", "e", "e", "r">>,
      \* 3: analyst
      <<"a", "n", "a", "l", "y", "s", "t">>,
      \* 4: analysis
      <<"a", "n", "a", "l", "y", "s", "i", "s">>,
      \* 5: engineering
      <<"e", "n", "g", "i", "n", "e", "e", "r", "i", "n", "g">>,
      \* 6: (empty)
      <<>>,
      \* 7: designer
      <<"d", "e", "s", "i", "g", "n", "e", "r">>
    >>

\* what the chat model may answer the title prompt with
RawTitleTable ==
    <<
      \* 1: Backend Engineer
      <<"B", "a", "c", "k", "e", "n", "d", " ", "E", "n", "g", "i", "n", "e", "e", "r">>,
      \* 2: Job title: Senior Engineering Manager
      <<"J", "o", "b", " ", "t", "i", "t", "l", "e", ":", " ", "S", "e", "n", "i", "o",
        "r", " ", "E", "n", "g", "i", "n", "e", "e", "r", "i", "n", "g", " ", "M", "a",
        "n", "a", "g", "e", "r">>,
      \* 3: Data Analyst
      <<"D", "a", "t", "a", " ", "A", "n", "a", "l", "y", "s", "t">>,
      \* 4: "Market Analysis Lead"
      <<"\"", "M", "a", "r", "k", "e", "t", " ", "A", "n", "a", "l", "y", "s", "i",
        "s", " ", "L", "e", "a", "d", "\"">>,
      \* 5: (empty)
      <<>>,
      \* 6:  Product Designer\n
      <<" ", "P", "r", "o", "d", "u", "c", "t", " ", "D", "e", "s", "i", "g", "n", "e",
        "r", "\n">>,
      \* 7: title: 
      <<"t", "i", "t", "l", "e", ":", " ">>
    >>

\* the postings of a long board are BulkBase followed by a number
BulkBase ==
    <<"h", "t", "t", "p", "s", ":", "/", "/", "b", "o", "a", "r", "d", "s", ".", "g",
      "r", "e", "e", "n", "h", "o", "u", "s", "e", ".", "i", "o", "/", "a", "c", "m",
      "e", "/">>

\* postings of the long board
MaxBulk == 25

NFixedHrefs == Len(FixedHrefs)

\* every link target of the model: the fixed ones, then the postings 1..MaxBulk
HrefTable == FixedHrefs \o [n \in 1..MaxBulk |-> BulkBase \o Decimal(n)]

Text(t) == TextTable[t]
Href(h) == HrefTable[h]
BulkHref(n) == NFixedHrefs + n

(***************************************************************************)
(* Page text.  A response body is a sequence of segments: n characters of  *)
(* plain text, or one Markdown link [text](href).                          *)
(***************************************************************************)
Fill(n) == [kind |-> "fill", n |-> n, text |-> 0, href |-> 0]
Link(t, h) == [kind |-> "link", n |-> 0, text |-> t, href |-> h]

\* characters of one segment; a link is "[" text "](" href ")"
SegLen(seg) ==
    IF seg.kind = "fill" THEN seg.n
    ELSE Len(Text(seg.text)) + Len(Href(seg.href)) + 4

RECURSIVE BodyLen(_)
\* len(response.text)
BodyLen(body) ==
    IF body = <<>> THEN 0 ELSE SegLen(Head(body)) + BodyLen(Tail(body))

RECURSIVE TakeChars(_, _)
\* response.text[:n]; a link cut by the slice is left as plain characters
TakeChars(body, n) ==
    IF body = <<>> \/ n <= 0 THEN <<>>
    ELSE IF SegLen(Head(body)) <= n
         THEN <<Head(body)>> \o TakeChars(Tail(body), n - SegLen(Head(body)))
         ELSE <<Fill(n)>>

\* the slice bound of line 36
MaxContentChars == 20000

(***************************************************************************)
(* fetch_page_content, src/scraper_service.py:14-60                        *)
(***************************************************************************)
\* the default of the retry_count parameter, line 14
DefaultRetryCount == 3

\* largest retry_count a direct caller passes
MaxRetry == 4

FText(body) == [kind |-> "text", body |-> body]
FNone == [kind |-> "none", body |-> <<>>]
FPending == [kind |-> "pending", body |-> <<>>]

\* bool(content) of a value fetch_page_content returned
Truthy(r) == r.kind = "text" /\ BodyLen(r.body) > 0

Http(status, body) == [kind |-> "http", status |-> status, body |-> body]
Failed == [kind |-> "exc", status |-> 0, body |-> <<>>]

\* line 39: the wait after a 429 on attempt a
Wait429Linear(a) == (a + 1) * 2

Wait429(a) == (2 ^ a) * 2

\* line 52: the wait after an exception on attempt a
WaitExcLinear(a) == (a + 1) * 1

WaitExc(a) == (2 ^ a) * 1

Step(done, sleep, ret) == [done |-> done, sleep |-> sleep, ret |-> ret]

\* lines 33-58: one pass of the loop body on the outcome r of requests.get,
\* with attempt = a and retry_count = n; sleep = 0 is no time.sleep call
HandleResponseRetryAll(r, a, n) ==
    IF r.kind = "http" /\ r.status = 200
    THEN Step(TRUE, 0, FText(TakeChars(r.body, MaxContentChars)))
    ELSE IF a < n - 1 THEN Step(FALSE, Wait429(a), FPending)
         ELSE Step(TRUE, 0, FNone)

\* the same with the slice of line 36 left out
HandleResponseNoSlice(r, a, n) ==
    IF r.kind = "http" /\ r.status = 200 THEN Step(TRUE, 0, FText(r.body))
    ELSE IF r.kind = "http" /\ r.status = 429 /\ a < n - 1
         THEN Step(FALSE, Wait429(a), FPending)
    ELSE IF r.kind # "http" /\ a < n - 1 THEN Step(FALSE, WaitExc(a), FPending)
    ELSE Step(TRUE, 0, FNone)

\* the same with an empty page turned into None
HandleResponseEmptyIsNone(r, a, n) ==
    IF r.kind = "http" /\ r.status = 200
    THEN Step(TRUE, 0, IF BodyLen(r.body) = 0 THEN FNone
                       ELSE FText(TakeChars(r.body, MaxContentChars)))
    ELSE IF r.kind = "http" /\ r.status = 429 /\ a < n - 1
         THEN Step(FALSE, Wait429(a), FPending)
    ELSE IF r.kind # "http" /\ a < n - 1 THEN Step(FALSE, WaitExc(a), FPending)
    ELSE Step(TRUE, 0, FNone)

\* the same with a counter of the 429s seen so far as the exponent of line 39
HandleResponseOwnCounter(r, a, n) ==
    LET seen429 == Cardinality({k \in DOMAIN fseen : fseen[k] = 429}) IN
    IF r.kind = "http" /\ r.status = 200
    THEN Step(TRUE, 0, FText(TakeChars(r.body, MaxContentChars)))
    ELSE IF r.kind = "http" /\ r.status = 429 /\ a < n - 1
         THEN Step(FALSE, Wait429(seen429), FPending)
    ELSE IF r.kind # "http" /\ a < n - 1 THEN Step(FALSE, WaitExc(a), FPending)
    ELSE Step(TRUE, 0, FNone)

HandleResponse(r, a, n) ==
    IF r.kind = "http" THEN
        IF r.status = 200 THEN Step(TRUE, 0, FText(TakeChars(r.body, MaxContentChars)))
        ELSE IF r.status = 429 THEN
            IF a < n - 1 THEN Step(FALSE, Wait429(a), FPending)
            ELSE Step(TRUE, 0, FNone)
        ELSE Step(TRUE, 0, FNone)
    ELSE
        IF a < n - 1 THEN Step(FALSE, WaitExc(a), FPending)
        ELSE Step(TRUE, 0, FNone)

\* the statuses the proxy answers with besides 200
ErrorStatuses == {429, 500, 404}

\* bodies the proxy serves to a direct caller of fetch_page_content
TopBodies ==
    {<<>>, <<Fill(120)>>, <<Fill(MaxContentChars)>>, <<Fill(MaxContentChars + 1)>>,
     <<Fill(MaxContentChars - 10), Link(1, 1)>>, <<Link(1, 1), Fill(MaxContentChars)>>}

\* line 14-30: the call; the headers do not influence the control flow
FetchStart(caller, url, n) ==
    /\ fpc' = "loop"
    /\ fcaller' = caller
    /\ furl' = url
    /\ retry_count' = n
    /\ attempt' = 0
    /\ requests' = 0
    /\ waits' = <<>>
    /\ fseen' = <<>>
    /\ fbody' = <<>>
    /\ fret' = FPending

\* lines 31-60 with "while True" for "for attempt in range(retry_count)"
FetchLoopUnbounded(r) ==
    LET s == HandleResponse(r, attempt, retry_count) IN
    /\ requests' = requests + 1
    /\ fseen' = Append(fseen, r.status)
    /\ fbody' = r.body
    /\ waits' = IF s.sleep > 0 THEN Append(waits, s.sleep) ELSE waits
    /\ attempt' = IF s.done THEN attempt ELSE attempt + 1
    /\ fpc' = IF s.done THEN "done" ELSE "loop"
    /\ fret' = s.ret
    /\ UNCHANGED <<fcaller, furl, retry_count>>

\* lines 31-60 for one value of attempt, the proxy answering r
FetchLoop(r) ==
    IF attempt >= retry_count
    THEN /\ fret' = FNone
         /\ fpc' = "done"
         /\ UNCHANGED <<fcaller, furl, retry_count, attempt, requests, waits, fseen, fbody>>
    ELSE LET s == HandleResponse(r, attempt, retry_count) IN
         /\ requests' = requests + 1
         /\ fseen' = Append(fseen, r.status)
         /\ fbody' = r.body
         /\ waits' = IF s.sleep > 0 THEN Append(waits, s.sleep) ELSE waits
         /\ attempt' = IF s.done THEN attempt ELSE attempt + 1
         /\ fpc' = IF s.done THEN "done" ELSE "loop"
         /\ fret' = s.ret
         /\ UNCHANGED <<fcaller, furl, retry_count>>

\* line 156 of discover_job_links
max_matches == 20

\* the proxy's answers to the request of this attempt that are failures or
\* an empty page
FaultyAnswers == {Http(s, <<>>) : s \in ErrorStatuses} \cup {Failed, Http(200, <<>>)}

\* the page of a job posting, as the proxy serves it
JobBody == <<Fill(300)>>

\* failures the environment injects into one discovery run of a small board
MaxFaults == 2

\* failures left to inject: one failure in all in the run of a long board
FaultBudget == IF Len(board) >= max_matches THEN 1 ELSE MaxFaults

\* what requests.get may come back with
ProxyAnswers ==
    CASE fcaller = "top" ->
            {Http(200, b) : b \in TopBodies} \cup {Http(s, <<>>) : s \in ErrorStatuses}
            \cup {Failed}
      [] fcaller = "board" ->
            {Http(200, board)} \cup (IF faults < FaultBudget THEN FaultyAnswers ELSE {})
      [] OTHER ->
            {Http(200, JobBody)} \cup (IF faults < FaultBudget THEN FaultyAnswers ELSE {})

\* a direct call fetch_page_content(url, retry_count = n)
FetchTop ==
    /\ dpc = "idle"
    /\ fpc \in {"idle", "done"}
    /\ \E n \in 0..MaxRetry : FetchStart("top", 1, n)
    /\ UNCHANGED <<webVars, envVars, parseVars, llmVars, discVars>>

\* lines 31-60: one pass of the retry loop
FetchAttempt ==
    /\ fpc = "loop"
    /\ \E r \in ProxyAnswers :
          /\ FetchLoop(r)
          /\ faults' = IF attempt < retry_count /\ fcaller # "top" /\ r \in FaultyAnswers
                       THEN faults + 1 ELSE faults
    /\ UNCHANGED <<webVars, envVars, parseVars, llmVars, board, role_keyword, dpc, candidates,
                   scan_i, matched_urls, checked, verdicts, titles, caught, pauses, dret>>

(***************************************************************************)
(* _extract_job_title_from_page, src/scraper_service.py:90-119             *)
(***************************************************************************)
Whitespace == {" ", "\n", "\t"}

RECURSIVE LStrip(_, _)
LStrip(s, cs) == IF s # <<>> /\ Head(s) \in cs THEN LStrip(Tail(s), cs) ELSE s

RECURSIVE RStrip(_, _)
RStrip(s, cs) ==
    IF s # <<>> /\ s[Len(s)] \in cs THEN RStrip(SubSeq(s, 1, Len(s) - 1), cs) ELSE s

\* s.strip() and s.strip(chars)
Strip(s, cs) == RStrip(LStrip(s, cs), cs)

\* re.sub(r'^(p)\s*', '', s, flags=re.IGNORECASE) for one literal p
DropPrefix(s, p) == LStrip(SubSeq(s, Len(p) + 1, Len(s)), Whitespace)

\* line 115: the alternatives are tried in the order they are written
RemoveTitlePrefix(s) ==
    IF StartsWith(Lower(s), S_job_title) THEN DropPrefix(s, S_job_title)
    ELSE IF StartsWith(Lower(s), S_title) THEN DropPrefix(s, S_title)
    ELSE IF StartsWith(Lower(s), S_the_job_title_is) THEN DropPrefix(s, S_the_job_title_is)
    ELSE s

\* the slice bound of line 116
TitleLimit == 200

\* lines 113-116
CleanTitle(raw) ==
    Take(RemoveTitlePrefix(Strip(Strip(Strip(raw, Whitespace), {"\""}), {"'"})), TitleLimit)

TNone == [ok |-> FALSE, s |-> <<>>]
TStr(s) == [ok |-> TRUE, s |-> s]

\* what ChatOpenAI(...) and llm.invoke(prompt) may do for the title prompt
TitleAnswer(kind, raw) == [kind |-> kind, raw |-> raw]

\* the title the posting at href h carries
NominalTitle(h) ==
    CASE h = 1 -> 1
      [] h = 2 -> 4
      [] h = 6 -> 2
      [] h = 7 -> 3
      [] h > NFixedHrefs -> IF (h - NFixedHrefs) % 7 = 0 THEN 3 ELSE 1
      [] OTHER -> 6

FaultyTitleAnswers ==
    {TitleAnswer(k, 1) : k \in {"ctor_raise", "invoke_raise", "noattr"}}
    \cup {TitleAnswer("content", t) : t \in DOMAIN RawTitleTable}

TitleAnswers(h) ==
    {TitleAnswer("content", NominalTitle(h))}
    \cup (IF faults < FaultBudget THEN FaultyTitleAnswers ELSE {})

\* lines 94-100 without the test of lines 98-100
ReachesModelNoKeyCheck(content, key) == content.kind = "text" /\ BodyLen(content.body) > 0

\* lines 94-100: the model is asked only for a non-empty page and with a credential
ReachesModel(content, key) == content.kind = "text" /\ BodyLen(content.body) > 0 /\ key

\* lines 113-116 for each answer of RawTitleTable
CleanTitleTable == [t \in DOMAIN RawTitleTable |-> CleanTitle(RawTitleTable[t])]

\* lines 92-119 without the test of lines 94-100
ExtractTitleIgnoresFetch(content, key, o) ==
    IF o.kind = "content" THEN TStr(CleanTitleTable[o.raw]) ELSE TNone

\* lines 92-119 after the fetch: the title, or None
ExtractTitle(content, key, o) ==
    IF ~ReachesModel(content, key) THEN TNone
    ELSE IF o.kind = "content" THEN TStr(CleanTitleTable[o.raw])
    ELSE TNone

(***************************************************************************)
(* discover_job_links, src/scraper_service.py:122-195                      *)
(***************************************************************************)
\* line 184, in milliseconds
PaceWithKeyMs == 500
PaceNoKeyMs == 3500

Cand(t, h) == [text |-> t, url |-> h]

RECURSIVE FindAll(_)
\* lines 130-131: re.findall of \[([^\]]+)\]\((http[^\)]+)\) over the page
FindAll(body) ==
    IF body = <<>> THEN <<>>
    ELSE LET seg == Head(body) IN
         IF /\ seg.kind = "link"
            /\ Len(Text(seg.text)) >= 1
            /\ StartsWith(Href(seg.href), S_http)
            /\ Len(Href(seg.href)) > Len(S_http)
         THEN <<Cand(seg.text, seg.href)>> \o FindAll(Tail(body))
         ELSE FindAll(Tail(body))

\* line 136
SkippedNoMailto(m) ==
    Len(Text(m.text)) < 4 \/ Contains(Href(m.url), S_linkedin)

Skipped(m) ==
    \/ Len(Text(m.text)) < 4
    \/ Contains(Href(m.url), S_mailto)
    \/ Contains(Href(m.url), S_linkedin)

\* lines 139-140 with the test of the link left out
PlausibleNoFilter(m) == Len(Text(m.text)) >= 0

\* lines 139-140
Plausible(m) ==
    \/ Contains(Lower(Href(m.url)), S_greenhouse)
    \/ Contains(Lower(Href(m.url)), S_lever)
    \/ Contains(Lower(Href(m.url)), S_workday)
    \/ Contains(Lower(Text(m.text)), S_apply)

RECURSIVE CollectReversed(_, _, _)
\* lines 133-143 with candidates.insert(0, ...) for candidates.append(...)
CollectReversed(matches, cands, seen) ==
    IF matches = <<>> THEN cands
    ELSE LET m == Head(matches) IN
         IF Skipped(m) THEN CollectReversed(Tail(matches), cands, seen)
         ELSE IF Plausible(m) /\ m.url \notin seen
              THEN CollectReversed(Tail(matches), <<m>> \o cands, seen \cup {m.url})
              ELSE CollectReversed(Tail(matches), cands, seen)

RECURSIVE CollectSeenAll(_, _, _)
\* lines 133-143 with seen.add(href) ahead of the test of lines 139-140
CollectSeenAll(matches, cands, seen) ==
    IF matches = <<>> THEN cands
    ELSE LET m == Head(matches) IN
         IF Skipped(m) THEN CollectSeenAll(Tail(matches), cands, seen)
         ELSE IF Plausible(m) /\ m.url \notin seen
              THEN CollectSeenAll(Tail(matches), Append(cands, m), seen \cup {m.url})
              ELSE CollectSeenAll(Tail(matches), cands, seen \cup {m.url})

RECURSIVE Collect(_, _, _)
\* lines 133-143: the loop over the regex matches
Collect(matches, cands, seen) ==
    IF matches = <<>> THEN cands
    ELSE LET m == Head(matches) IN
         IF Skipped(m) THEN Collect(Tail(matches), cands, seen)
         ELSE IF Plausible(m) /\ m.url \notin seen
              THEN Collect(Tail(matches), Append(cands, m), seen \cup {m.url})
              ELSE Collect(Tail(matches), cands, seen)

Candidates(body) == Collect(FindAll(body), <<>>, {})

\* lines 162-167 without the lower() of line 163
TitleMatchesCaseSensitive(title, kw) ==
    /\ title.ok
    /\ title.s # <<>>
    /\ LET keyword_lower == Lower(kw)
       IN \/ Contains(title.s, keyword_lower)
          \/ (keyword_lower = S_engineer /\ Contains(title.s, S_engineering))
          \/ (keyword_lower = S_analyst /\ Contains(title.s, S_analysis))

\* lines 162-167 without line 167
TitleMatchesNoAnalysis(title, kw) ==
    /\ title.ok
    /\ title.s # <<>>
    /\ LET title_lower == Lower(title.s)
           keyword_lower == Lower(kw)
       IN \/ Contains(title_lower, keyword_lower)
          \/ (keyword_lower = S_engineer /\ Contains(title_lower, S_engineering))

\* lines 162-167 with the synonyms applied in both directions
TitleMatchesBothWays(title, kw) ==
    /\ title.ok
    /\ title.s # <<>>
    /\ LET title_lower == Lower(title.s)
           keyword_lower == Lower(kw)
       IN \/ Contains(title_lower, keyword_lower)
          \/ (keyword_lower = S_engineer /\ Contains(title_lower, S_engineering))
          \/ (keyword_lower = S_analyst /\ Contains(title_lower, S_analysis))
          \/ (keyword_lower = S_engineering /\ Contains(title_lower, S_engineer))
          \/ (keyword_lower = S_analysis /\ Contains(title_lower, S_analyst))

\* lines 162-167 without the test of line 162
TitleMatchesEmptyTitle(title, kw) ==
    /\ title.ok
    /\ LET title_lower == Lower(title.s)
           keyword_lower == Lower(kw)
       IN \/ Contains(title_lower, keyword_lower)
          \/ (keyword_lower = S_engineer /\ Contains(title_lower, S_engineering))
          \/ (keyword_lower = S_analyst /\ Contains(title_lower, S_analysis))

\* lines 162-167
TitleMatches(title, kw) ==
    /\ title.ok
    /\ title.s # <<>>
    /\ LET title_lower == Lower(title.s)
           keyword_lower == Lower(kw)
       IN \/ Contains(title_lower, keyword_lower)
          \/ (keyword_lower = S_engineer /\ Contains(title_lower, S_engineering))
          \/ (keyword_lower = S_analyst /\ Contains(title_lower, S_analysis))

\* lines 162-167 for each keyword of KeywordTable and each cleaned title
MatchTable ==
    [k \in DOMAIN KeywordTable |->
        [t \in DOMAIN RawTitleTable |->
            TitleMatches(TStr(CleanTitleTable[t]), KeywordTable[k])]]

\* lines 162-167 for the title extracted from answer o
Hit(title, k, o) == title.ok /\ MatchTable[k][o.raw]

\* line 172: enough matches, the scan breaks
StopEarlyOffByOne(found) == Len(found) > max_matches

StopEarly(found) == Len(found) >= max_matches

DReturn(urls) == [kind |-> "return", urls |-> urls]
DRaise == [kind |-> "raise", urls |-> <<>>]

\* lines 193-195: the except clause around the whole function
DiscoverHandlerReraise(e) == DRaise

\* lines 193-195 with "return matched_urls" for "return []"
DiscoverHandlerKeepMatches(e) ==
    IF IsInstance(e, "Exception") THEN DReturn(matched_urls) ELSE DRaise

DiscoverHandler(e) ==
    IF IsInstance(e, "Exception") THEN DReturn(<<>>) ELSE DRaise
DPending == [kind |-> "pending", urls |-> <<>>]

\* the url of board_url; it is no entry of HrefTable
BoardUrl == 0

\* line 184: the pacing delay, in milliseconds
Delay(key) == IF key THEN PaceWithKeyMs ELSE PaceNoKeyMs

\* line 185 with <= for <
SleepsAfterLast(i, n) == i <= n - 1

\* line 185: candidate i of n is followed by a pacing sleep
Sleeps(i, n) == i < n - 1

\* lines 183-188: what the pacing step (os.getenv, time.sleep, print) may do when
\* the scan goes on; "" is a finished sleep, otherwise the class of the exception
\* raised, as by a signal handler that interrupts the sleep
PaceOutcomes(ends) ==
    IF ~ends /\ faults < FaultBudget THEN {"", "OSError"} ELSE {""}

\* line 122-125: the call, up to the fetch of the board page
DiscoverCall ==
    /\ dpc = "idle"
    /\ fpc = "idle"
    /\ dpc' = "board"
    /\ FetchStart("board", BoardUrl, DefaultRetryCount)
    /\ UNCHANGED <<webVars, envVars, parseVars, llmVars, board, role_keyword, candidates, scan_i,
                   matched_urls, checked, verdicts, titles, caught, pauses, faults, dret>>

\* lines 126-153: the board page is parsed into candidates
DiscoverParse ==
    /\ dpc = "board"
    /\ fpc = "done"
    /\ IF ~Truthy(fret)
       THEN /\ dret' = DReturn(<<>>)
            /\ dpc' = "done"
            /\ candidates' = candidates
            /\ caught' = caught
       ELSE LET cs == Candidates(fret.body) IN
            /\ candidates' = cs
            /\ IF cs = <<>>
               THEN /\ dret' = DReturn(<<>>)
                    /\ dpc' = "done"
                    /\ caught' = caught
               ELSE IF role_keyword = 0
               THEN \* line 153: None has no lower()
                    /\ dret' = DiscoverHandler("AttributeError")
                    /\ dpc' = "done"
                    /\ caught' = TRUE
               ELSE /\ dret' = dret
                    /\ dpc' = "scan"
                    /\ caught' = caught
    /\ UNCHANGED <<webVars, envVars, parseVars, llmVars, fetchVars, board, role_keyword, scan_i,
                   matched_urls, checked, verdicts, titles, pauses, faults>>

\* lines 157-161 and 93: candidate i is handed to the title extraction,
\* which fetches its page
DiscoverCheck ==
    /\ dpc = "scan"
    /\ dpc' = "fetching"
    /\ checked' = Append(checked, candidates[scan_i + 1].url)
    /\ FetchStart("title", candidates[scan_i + 1].url, DefaultRetryCount)
    /\ UNCHANGED <<webVars, envVars, parseVars, llmVars, board, role_keyword, candidates, scan_i,
                   matched_urls, verdicts, titles, caught, pauses, faults, dret>>

\* lines 94-119 and 162-191: the title is extracted and matched, then the
\* scan pauses and moves on, or returns; an exception raised by the pacing
\* step is caught at line 193
DiscoverTitle ==
    /\ dpc = "fetching"
    /\ fpc = "done"
    /\ \E o \in TitleAnswers(candidates[scan_i + 1].url) :
          LET url == candidates[scan_i + 1].url
              asked == ReachesModel(fret, openaiKey)
              title == ExtractTitle(fret, openaiKey, o)
              hit == Hit(title, role_keyword, o)
              found == IF hit THEN Append(matched_urls, url) ELSE matched_urls
              stop == hit /\ StopEarly(found)
              last == ~(scan_i < Len(candidates) - 1)
              titleFault == asked /\ o \in FaultyTitleAnswers
                                  /\ o # TitleAnswer("content", NominalTitle(url))
          IN \E e \in PaceOutcomes(stop \/ last) :
             /\ clients' = IF asked /\ o.kind # "ctor_raise" THEN clients + 1 ELSE clients
             /\ modelCalls' = IF asked /\ o.kind # "ctor_raise"
                              THEN modelCalls + 1 ELSE modelCalls
             /\ faults' = faults + (IF titleFault THEN 1 ELSE 0) + (IF e # "" THEN 1 ELSE 0)
             /\ matched_urls' = found
             /\ verdicts' = Append(verdicts, hit)
             /\ titles' = Append(titles, IF title.ok THEN o.raw ELSE 0)
             /\ pauses' = IF ~stop /\ Sleeps(scan_i, Len(candidates)) /\ e = ""
                          THEN Append(pauses, Delay(jinaKey))
                          ELSE pauses
             /\ caught' = (caught \/ e # "")
             /\ IF e # ""
                THEN /\ dpc' = "done"
                     /\ dret' = DiscoverHandler(e)
                     /\ scan_i' = scan_i
                ELSE IF stop \/ last
                THEN /\ dpc' = "done"
                     /\ dret' = DReturn(found)
                     /\ scan_i' = scan_i
                ELSE /\ dpc' = "scan"
                     /\ dret' = dret
                     /\ scan_i' = scan_i + 1
    /\ UNCHANGED <<webVars, envVars, parseVars, fetchVars, board, role_keyword, candidates, checked>>

(***************************************************************************)
(* The web layer, src/app.py: run_bulk_crawl (141-248) and the scraper      *)
(* branch of seed (603-657).  Each request runs in a thread of its own with *)
(* a session of its own; the comp_data table is shared.                     *)
(***************************************************************************)
\* urls a discovery hands to one request
MaxUrls == 2

\* the requests the server handles, one after the other or at the same time
Reqs == {1, 2}

\* urls[:4] of line 170 and urls[:20] of line 623
BulkLimit == 4
SeedLimit == 20

\* what parse_job_description_with_ai may hand to the web layer under each key
CrawlValues(k) ==
    CASE k = "job_title" -> {JStr("Senior Backend Engineer"), JStr("Data Analyst"), JStr("")}
      [] k = "company"   -> {JStr("Acme Corp"), JNull}
      [] k = "min"       -> {JNum(150000), JNum(250000), JStr("150k")}
      [] OTHER           -> {JNum(200000), JNum(0), JNum(-1), JStr("200k")}

CrawlDicts ==
    {d \in [RequiredKeySet -> UNION {CrawlValues(k) : k \in RequiredKeySet}] :
        \A k \in RequiredKeySet : d[k] \in CrawlValues(k)}

\* the records parse_job_description_with_ai returns to the web layer
ExtractedRecords == {FillMissingKeys(d) : d \in CrawlDicts} \cup {DefaultRecord}

\* not v, for a JSON value v
Falsy(v) == v \in {JNull, JStr(""), JNum(0)}

\* a CompData row
CompData(company, title, lo, hi) ==
    [company_name |-> company, role_title |-> title, salary_min |-> lo, salary_max |-> hi]

\* nullable=False of models.py:24-25: the flush of such a row raises
NullName(row) == row.company_name = JNull \/ row.role_title = JNull

\* CompData.query.filter_by(company_name=..., role_title=...).first() is not None
Existing(rows, company, title) ==
    \E i \in DOMAIN rows : rows[i].company_name = company /\ rows[i].role_title = title

Skip == [kind |-> "skip", row |-> CompData(JNull, JNull, 0, 0)]
Abort == [kind |-> "raise", row |-> CompData(JNull, JNull, 0, 0)]
Add(row) == [kind |-> "add", row |-> row]

\* app.py 176-216 without the swap of lines 191-192
BulkOutcomeNoSwap(data, rows) ==
    IF Falsy(data["job_title"]) \/ Falsy(data["company"]) THEN Skip
    ELSE IF data["max"].t # "num" THEN Abort
    ELSE IF data["max"].n <= 0 THEN Skip
    ELSE IF data["min"].t # "num" THEN Abort
    ELSE IF Existing(rows, data["company"], data["job_title"]) THEN Skip
    ELSE Add(CompData(data["company"], data["job_title"], data["min"].n, data["max"].n))

\* app.py 176-216: one record in run_bulk_crawl; rows is what the query sees.
\* A comparison of a str or None with a number raises TypeError.
BulkOutcome(data, rows) ==
    IF Falsy(data["job_title"]) \/ Falsy(data["company"]) THEN Skip
    ELSE IF data["max"].t # "num" THEN Abort
    ELSE IF data["max"].n <= 0 THEN Skip
    ELSE IF data["min"].t # "num" THEN Abort
    ELSE LET swap == data["min"].n > data["max"].n
             salary_min == IF swap THEN data["max"].n ELSE data["min"].n
             salary_max == IF swap THEN data["min"].n ELSE data["max"].n
         IN IF Existing(rows, data["company"], data["job_title"]) THEN Skip
            ELSE Add(CompData(data["company"], data["job_title"], salary_min, salary_max))

\* app.py 627-650: one record in seed; the query flushes the session first
SeedOutcome(data, rows, session) ==
    IF data["max"].t # "num" THEN Abort
    ELSE IF ~(data["max"].n > 0) THEN Skip
    ELSE IF \E i \in DOMAIN session : NullName(session[i]) THEN Abort
    ELSE IF Existing(rows, data["company"], data["job_title"]) THEN Skip
    ELSE IF data["min"].t # "num" THEN Abort
    ELSE LET swap == data["min"].n > data["max"].n
             salary_min == IF swap THEN data["max"].n ELSE data["min"].n
             salary_max == IF swap THEN data["min"].n ELSE data["max"].n
         IN Add(CompData(data["company"], data["job_title"], salary_min, salary_max))

Least(x, y) == IF x < y THEN x ELSE y

\* app.py 173-216 and 625-650: what one url of the loop may come to; the fetch
\* fails (the url is passed over) or the page is parsed into some record
UrlOutcomes(route, seen, session) ==
    {Skip} \cup {IF route = "bulk" THEN BulkOutcome(data, seen)
                 ELSE SeedOutcome(data, seen, session) : data \in ExtractedRecords}

\* app.py 227: the commit raises for a row with a NULL name and when the
\* database fails
CommitRaises(session, dbok) == ~dbok \/ \E i \in DOMAIN session : NullName(session[i])

\* app.py 241-242 with the flushed rows left in the table
RollbackKeepsRows(rows, session) == rows \o session

\* app.py 241-242 and 654-655: the table after db.session.rollback()
Rollback(rows, session) == rows

\* app.py 141-169 and 603-622: the request arrives and discovery returns n urls
WebStart(r) ==
    /\ wpc[r] = "idle"
    /\ \E route \in {"bulk", "seed"}, n \in 0..MaxUrls :
          /\ wroute' = [wroute EXCEPT ![r] = route]
          /\ IF n = 0
             THEN /\ wpc' = [wpc EXCEPT ![r] = "done"]
                  /\ wret' = [wret EXCEPT ![r] = "none"]
                  /\ wleft' = wleft
             ELSE /\ wpc' = [wpc EXCEPT ![r] = "loop"]
                  /\ wret' = wret
                  /\ wleft' = [wleft EXCEPT
                                 ![r] = Least(n, IF route = "bulk" THEN BulkLimit
                                                 ELSE SeedLimit)]
    /\ UNCHANGED <<comp_data, wsession, saved_count, persisted>>
    /\ UNCHANGED <<envVars, parseVars, llmVars, fetchVars, discVars>>

\* app.py 170-224 and 623-650: one url of the loop.  An exception leaves the
\* loop: run_bulk_crawl answers an error without a commit (line 246) and seed
\* rolls back (line 655); either way the session's rows are dropped.
WebStep(r) ==
    /\ wpc[r] = "loop"
    /\ \E o \in UrlOutcomes(wroute[r], comp_data \o wsession[r], wsession[r]) :
             IF o.kind = "raise"
             THEN /\ wpc' = [wpc EXCEPT ![r] = "done"]
                  /\ wret' = [wret EXCEPT ![r] = "error"]
                  /\ wsession' = [wsession EXCEPT ![r] = <<>>]
                  /\ UNCHANGED <<wleft, saved_count>>
             ELSE /\ wsession' = IF o.kind = "add"
                                 THEN [wsession EXCEPT ![r] = Append(@, o.row)]
                                 ELSE wsession
                  /\ saved_count' = IF o.kind = "add"
                                    THEN [saved_count EXCEPT ![r] = @ + 1]
                                    ELSE saved_count
                  /\ wleft' = [wleft EXCEPT ![r] = @ - 1]
                  /\ wpc' = [wpc EXCEPT ![r] = IF wleft[r] = 1 THEN "commit" ELSE "loop"]
                  /\ wret' = wret
    /\ UNCHANGED <<comp_data, wroute, persisted>>
    /\ UNCHANGED <<envVars, parseVars, llmVars, fetchVars, discVars>>

\* app.py 226-244 and 652-657: db.session.commit() makes the rows of the session
\* durable together; when it raises, the handler rolls back.  persisted records
\* the rows the request added to the table.
WebCommit(r) ==
    /\ wpc[r] = "commit"
    /\ \E dbok \in BOOLEAN :
          IF ~CommitRaises(wsession[r], dbok)
          THEN /\ comp_data' = comp_data \o wsession[r]
               /\ wret' = [wret EXCEPT ![r] = "ok"]
          ELSE /\ comp_data' = Rollback(comp_data, wsession[r])
               /\ wret' = [wret EXCEPT ![r] = "error"]
    /\ persisted' = [persisted EXCEPT
                       ![r] = SubSeq(comp_data', Len(comp_data) + 1, Len(comp_data'))]
    /\ wsession' = [wsession EXCEPT ![r] = <<>>]
    /\ wpc' = [wpc EXCEPT ![r] = "done"]
    /\ UNCHANGED <<wroute, wleft, saved_count>>
    /\ UNCHANGED <<envVars, parseVars, llmVars, fetchVars, discVars>>

(***************************************************************************)
(* The specifications.                                                     *)
(***************************************************************************)
vars == <<envVars, parseVars, llmVars, fetchVars, discVars, webVars>>

\* links a small board page is made of
LinkChoices == {Link(1, 1), Link(2, 1), Link(3, 2), Link(4, 2), Link(5, 3), Link(6, 4)}

\* links on a small board page
MaxLinks == 2

SmallBoards == UNION {[1..n -> LinkChoices] : n \in 0..MaxLinks}

FixedBoards ==
    {<<Fill(40), Link(1, 1), Fill(10), Link(7, 5)>>,
     <<Link(8, 6), Link(9, 7), Link(4, 8), Link(3, 2)>>,
     <<Link(5, 3), Link(6, 4), Link(1, 1)>>,
     <<Link(7, 5), Link(4, 2), Link(3, 2), Link(1, 1)>>,
     <<Fill(MaxContentChars - 30), Link(1, 1), Link(3, 2)>>}

LongBoard == [n \in 1..MaxBulk |-> Link(10, BulkHref(n))]

\* the board pages and keywords of the discovery runs
Scenarios ==
    {<<b, 1>> : b \in SmallBoards}
    \cup {<<b, k>> : b \in FixedBoards, k \in 0..Len(KeywordTable)}
    \cup {<<LongBoard, k>> : k \in {1, 6}}

ParseIdle ==
    /\ ppc = "idle"
    /\ pcalls = 0
    /\ presp = NoResponse
    /\ pret = Pending
    /\ pprev = NoCall
    /\ clients = 0
    /\ modelCalls = 0

FetchIdle ==
    /\ fpc = "idle"
    /\ fcaller = "top"
    /\ furl = 0
    /\ retry_count = DefaultRetryCount
    /\ attempt = 0
    /\ requests = 0
    /\ waits = <<>>
    /\ fseen = <<>>
    /\ fbody = <<>>
    /\ fret = FPending

DiscoverIdle ==
    /\ dpc = "idle"
    /\ candidates = <<>>
    /\ scan_i = 0
    /\ matched_urls = <<>>
    /\ checked = <<>>
    /\ verdicts = <<>>
    /\ titles = <<>>
    /\ caught = FALSE
    /\ pauses = <<>>
    /\ faults = 0
    /\ dret = DPending

WebIdle ==
    /\ comp_data = <<>>
    /\ wpc = [r \in Reqs |-> "idle"]
    /\ wroute = [r \in Reqs |-> "bulk"]
    /\ wleft = [r \in Reqs |-> 0]
    /\ wsession = [r \in Reqs |-> <<>>]
    /\ saved_count = [r \in Reqs |-> 0]
    /\ wret = [r \in Reqs |-> "pending"]
    /\ persisted = [r \in Reqs |-> <<>>]

EnvInit ==
    /\ openaiKey \in BOOLEAN
    /\ jinaKey \in BOOLEAN

InitParse ==
    /\ EnvInit
    /\ ParseIdle
    /\ FetchIdle
    /\ DiscoverIdle
    /\ WebIdle
    /\ board = <<>>
    /\ role_keyword = 1

NextParse ==
    \/ ParseCall
    \/ ParseCheckKey
    \/ ParseConstruct
    \/ ParseInvoke
    \/ ParseJson
    \/ ParseDone

SpecParse == InitParse /\ [][NextParse]_vars

InitFetch == InitParse

NextFetch ==
    \/ FetchTop
    \/ FetchAttempt

SpecFetch == InitFetch /\ [][NextFetch]_vars

\* a pass of the loop ends: requests.get has a timeout and every sleep is finite
SpecFetchLive == SpecFetch /\ WF_vars(FetchAttempt)

InitDiscover ==
    /\ EnvInit
    /\ ParseIdle
    /\ FetchIdle
    /\ DiscoverIdle
    /\ WebIdle
    /\ \E sc \in Scenarios :
          /\ board = sc[1]
          /\ role_keyword = sc[2]

NextDiscover ==
    \/ DiscoverCall
    \/ FetchAttempt
    \/ DiscoverParse
    \/ DiscoverCheck
    \/ DiscoverTitle

SpecDiscover == InitDiscover /\ [][NextDiscover]_vars

InitCrawl == InitParse

NextCrawl ==
    \/ \E r \in Reqs : WebStart(r)
    \/ \E r \in Reqs : WebStep(r)
    \/ \E r \in Reqs : WebCommit(r)

SpecCrawl == InitCrawl /\ [][NextCrawl]_vars

(***************************************************************************)
(* Properties.                                                             *)
(***************************************************************************)
RECURSIVE IsSubseq(_, _)
\* a is b with some elements left out
IsSubseq(a, b) ==
    IF a = <<>> THEN TRUE
    ELSE IF b = <<>> THEN FALSE
    ELSE IF Head(a) = Head(b) THEN IsSubseq(Tail(a), Tail(b))
    ELSE IsSubseq(a, Tail(b))

RECURSIVE PickHits(_, _)
\* the urls whose verdict is TRUE, in order
PickHits(urls, v) ==
    IF urls = <<>> \/ v = <<>> THEN <<>>
    ELSE (IF Head(v) THEN <<Head(urls)>> ELSE <<>>) \o PickHits(Tail(urls), Tail(v))

TrueCount(v) == Cardinality({k \in DOMAIN v : v[k]})

CandidateUrls == [j \in DOMAIN candidates |-> candidates[j].url]

\* the position at which the link of candidate j first appears in the board page
FirstPos(j) ==
    CHOOSE p \in DOMAIN board :
        /\ board[p] = Link(candidates[j].text, candidates[j].url)
        /\ \A q \in 1..(p - 1) : board[q] # board[p]

MailtoHrefs == {h \in DOMAIN HrefTable : Contains(HrefTable[h], S_mailto)}
LinkedinHrefs == {h \in DOMAIN HrefTable : Contains(HrefTable[h], S_linkedin)}
LongTexts == {t \in DOMAIN TextTable : Len(TextTable[t]) >= 4}

\* C1: parse_job_description_with_ai never raises and never returns None: whatever
\* the model call does, a finished call has returned a record holding the four
\* keys job_title, company, min and max.
C1_Total ==
    /\ pret.kind \in {"pending", "return"}
    /\ ppc = "done" =>
          /\ pret.kind = "return"
          /\ RequiredKeySet \subseteq DOMAIN pret.val

C1_Witness ==
    /\ ppc = "done"
    /\ presp.kind = "raise"
    /\ presp.exc = "TimeoutError"
    /\ pret = Return(DefaultRecord)

\* C2: when every response is a 429, fetch_page_content(url, retry_count = n)
\* waits 2, 4, 8, ... seconds (2 * 2^a after attempt a), each wait longer than the
\* one before, makes exactly n requests and returns None.
C2_Backoff429 ==
    (fpc \in {"loop", "done"} /\ \A k \in DOMAIN fseen : fseen[k] = 429) =>
        /\ \A a \in DOMAIN waits : waits[a] = 2 * (2 ^ (a - 1))
        /\ \A a \in 1..(Len(waits) - 1) : waits[a] < waits[a + 1]
        /\ requests <= retry_count
        /\ fpc = "done" =>
              /\ requests = retry_count
              /\ Len(waits) = (IF retry_count = 0 THEN 0 ELSE retry_count - 1)
              /\ fret = FNone

C2_Witness ==
    /\ fpc = "done"
    /\ retry_count = 3
    /\ fseen = <<429, 429, 429>>
    /\ waits = <<2, 4>>
    /\ fret = FNone

\* C3: a response whose status is neither 200 nor 429 ends the call at once: it is
\* the last request, no wait follows it and None is returned; as the first
\* response it leaves exactly one request.
C3_NoRetryOnOtherStatus ==
    \A k \in DOMAIN fseen :
        fseen[k] \notin {0, 200, 429} =>
            /\ k = Len(fseen)
            /\ requests = k
            /\ Len(waits) = k - 1
            /\ fpc = "done"
            /\ fret = FNone

C3_Witness ==
    /\ fpc = "done"
    /\ fseen = <<500>>
    /\ requests = 1
    /\ waits = <<>>
    /\ fret = FNone

\* C4: discover_job_links never raises and returns at most 20 urls.
C4_NeverRaisesAtMost20 ==
    /\ dret.kind \in {"pending", "return"}
    /\ Len(matched_urls) <= max_matches
    /\ dpc = "done" =>
          /\ dret.kind = "return"
          /\ Len(dret.urls) <= max_matches

C4_Witness ==
    /\ dpc = "done"
    /\ dret.kind = "return"
    /\ Len(dret.urls) = max_matches
    /\ faults > 0

\* C5: the scan ends with the 20th match: the matches are the matching candidates
\* checked so far, in the order they were checked; once there are 20 of them the
\* call has returned them, the 20th match is the last candidate that was handed
\* to the title extraction, and no fetch is in flight.
C5_StopAtCap ==
    /\ TrueCount(verdicts) <= max_matches
    /\ matched_urls = PickHits(checked, verdicts)
    /\ Len(checked) <= Len(candidates)
    /\ checked = SubSeq(CandidateUrls, 1, Len(checked))
    /\ TrueCount(verdicts) = max_matches =>
          /\ dpc = "done"
          /\ fpc = "done"
          /\ dret = DReturn(PickHits(checked, verdicts))
          /\ Len(dret.urls) = max_matches
          /\ Len(checked) = Len(verdicts)
          /\ verdicts[Len(verdicts)]

C5_Witness ==
    /\ dpc = "done"
    /\ Len(candidates) = MaxBulk
    /\ Len(checked) = max_matches
    /\ \A k \in DOMAIN verdicts : verdicts[k]
    /\ dret = DReturn(SubSeq(CandidateUrls, 1, max_matches))

\* C6: when a discovery run ends, its candidates are in the order in which their
\* links first appear in the board page, they were title-checked in that order,
\* and the matches (and the returned list) keep that order.
C6_EncounterOrder ==
    dpc = "done" =>
        /\ \A j \in DOMAIN candidates :
              \E p \in DOMAIN board : board[p] = Link(candidates[j].text, candidates[j].url)
        /\ \A j \in 1..(Len(candidates) - 1) : FirstPos(j) < FirstPos(j + 1)
        /\ Len(checked) <= Len(candidates)
        /\ \A j \in DOMAIN checked : checked[j] = candidates[j].url
        /\ IsSubseq(matched_urls, CandidateUrls)
        /\ IsSubseq(dret.urls, CandidateUrls)

C6_Witness ==
    /\ dpc = "done"
    /\ Len(dret.urls) = 2
    /\ Len(checked) = 3
    /\ ~verdicts[2]

\* C7: every returned url is the target of a link of the board page whose display
\* text has at least 4 characters, contains neither "mailto" nor "linkedin", and
\* occurs once in the result; no link target containing "mailto" is returned.
C7_Filtered ==
    dpc = "done" =>
        /\ dret.urls \in {matched_urls, <<>>}
        /\ \A k \in DOMAIN matched_urls :
              /\ \E p \in DOMAIN board :
                    /\ board[p].kind = "link"
                    /\ board[p].href = matched_urls[k]
                    /\ board[p].text \in LongTexts
              /\ matched_urls[k] \notin MailtoHrefs
              /\ matched_urls[k] \notin LinkedinHrefs
              /\ \A j \in DOMAIN matched_urls :
                    j # k => HrefTable[matched_urls[j]] # HrefTable[matched_urls[k]]

C7_Witness ==
    /\ dpc = "done"
    /\ dret.urls # <<>>
    /\ \E p \in DOMAIN board : board[p].kind = "link" /\ board[p].href \in MailtoHrefs
    /\ \E p \in DOMAIN board : board[p].kind = "link" /\ board[p].href \in LinkedinHrefs

\* C8 as stated: the returned record has exactly the four keys.
C8_ExactlyFourKeys ==
    ppc = "done" => DOMAIN pret.val = RequiredKeySet

\* C8: the returned record holds the four keys job_title, company, min and max,
\* and besides them exactly the keys of the JSON object the model returned.
C8_FourKeysAndModelKeys ==
    ppc = "done" =>
        /\ pret.kind = "return"
        /\ DOMAIN pret.val =
              RequiredKeySet \cup
              (IF presp.kind = "content" /\ presp.content.form = "dict"
               THEN DOMAIN presp.content.obj ELSE {})

C8_Witness ==
    /\ ppc = "done"
    /\ presp.kind = "content"
    /\ presp.content.form = "dict"
    /\ DOMAIN presp.content.obj = {"company", "currency"}
    /\ DOMAIN pret.val = RequiredKeySet \cup {"currency"}

\* C9: in the returned record job_title and company are strings and min and max
\* are numbers.
C9_TypesCorrect ==
    (ppc = "done" /\ pret.kind = "return") =>
        \A k \in RequiredKeySet \cap DOMAIN pret.val :
            pret.val[k].t = (IF k \in NameKeys THEN "str" ELSE "num")

\* C10: without the credential the call returns the default record at once: no
\* client is constructed and the model is never called.
C10_NoKeyDefault ==
    ~openaiKey =>
        /\ clients = 0
        /\ modelCalls = 0
        /\ ppc \in {"idle", "key", "done"}
        /\ ppc = "done" => pret = Return(DefaultRecord)

C10_Witness ==
    /\ ~openaiKey
    /\ ppc = "done"
    /\ pret = Return(DefaultRecord)

RECURSIVE IsCharPrefix(_, _)
\* the characters of a are the first characters of b; plain text stands for any
\* characters, so a may end in plain text where b goes on
IsCharPrefix(a, b) ==
    IF a = <<>> THEN TRUE
    ELSE IF b = <<>> THEN FALSE
    ELSE IF Head(a) = Head(b) THEN IsCharPrefix(Tail(a), Tail(b))
    ELSE Head(a).kind = "fill" /\ Len(a) = 1 /\ Head(a).n <= SegLen(Head(b))

Min(x, y) == IF x < y THEN x ELSE y

\* C11: a 200 response ends the call with that request: it is the last request,
\* no wait follows it, and the value returned is text, a prefix of the response
\* body holding its first min(len(body), 20000) characters.
C11_Return200Prefix ==
    \A k \in DOMAIN fseen :
        fseen[k] = 200 =>
            /\ k = Len(fseen)
            /\ requests = k
            /\ Len(waits) = k - 1
            /\ fpc = "done"
            /\ fret.kind = "text"
            /\ BodyLen(fret.body) = Min(BodyLen(fbody), 20000)
            /\ IsCharPrefix(fret.body, fbody)

C11_Witness ==
    /\ fpc = "done"
    /\ fseen = <<429, 200>>
    /\ BodyLen(fbody) = 20001
    /\ fret.kind = "text"
    /\ BodyLen(fret.body) = 20000

\* C12 as stated: a 200 response with an empty body makes the call return None.
C12_EmptyPageIsNone ==
    (fpc = "done" /\ fseen # <<>> /\ fseen[Len(fseen)] = 200 /\ BodyLen(fbody) = 0)
        => fret = FNone

\* C12: a 200 response with an empty body makes the call return the empty string,
\* which is not None but is false like None; a failed fetch returns None.
C12_EmptyPageIsEmptyText ==
    fpc = "done" =>
        /\ (fseen # <<>> /\ fseen[Len(fseen)] = 200 /\ BodyLen(fbody) = 0) =>
               /\ fret = FText(<<>>)
               /\ fret # FNone
               /\ ~Truthy(fret)
        /\ (fseen = <<>> \/ fseen[Len(fseen)] # 200) => fret = FNone

C12_Witness ==
    /\ fpc = "done"
    /\ fseen = <<0, 200>>
    /\ fbody = <<>>
    /\ fret = FText(<<>>)

\* C13: fetch_page_content makes at most retry_count requests, every call ends,
\* and an ended call has returned text or None; no exception leaves it.
C13_BoundedAndTerminates ==
    /\ [](requests <= retry_count)
    /\ [](fret.kind \in {"pending", "text", "none"})
    /\ [](fpc = "done" => fret.kind \in {"text", "none"})
    /\ [](fpc = "loop" => <>(fpc = "done"))

C13_Witness ==
    /\ fpc = "done"
    /\ retry_count = 3
    /\ fseen = <<0, 429, 0>>
    /\ requests = 3
    /\ waits = <<1, 4>>
    /\ fret = FNone

Range(f) == {f[x] : x \in DOMAIN f}

\* the board page as discover_job_links received it
BoardPage == TakeChars(board, 20000)

\* the board page was fetched and its links were collected
BoardParsed ==
    /\ dpc \in {"scan", "fetching", "done"}
    /\ candidates # <<>> \/ (fcaller = "board" /\ fpc = "done" /\ Truthy(fret))

\* C14: a discovery run whose board fetch failed returns the empty list and
\* fetches no candidate page; a run in which an exception was caught returns the
\* empty list, whatever matches it had accumulated.
C14_EmptyOnFailure ==
    dpc = "done" =>
        /\ (fcaller = "board" /\ ~Truthy(fret)) =>
               /\ dret = DReturn(<<>>)
               /\ checked = <<>>
               /\ candidates = <<>>
               /\ requests <= DefaultRetryCount
        /\ caught => dret = DReturn(<<>>)

C14_Witness ==
    /\ dpc = "done"
    /\ caught
    /\ matched_urls # <<>>
    /\ dret = DReturn(<<>>)

\* for each keyword and each answer of the model: the extracted title is not
\* empty and, lower-cased, contains the lower-cased keyword, or the keyword is
\* "engineer" and the title contains "engineering", or the keyword is "analyst"
\* and the title contains "analysis"
TitleHasKeyword ==
    [k \in DOMAIN KeywordTable |->
        [t \in DOMAIN RawTitleTable |->
            LET title == Lower(CleanTitleTable[t])
                kw == Lower(KeywordTable[k])
            IN /\ title # <<>>
               /\ \/ Contains(title, kw)
                  \/ (kw = S_engineer /\ Contains(title, S_engineering))
                  \/ (kw = S_analyst /\ Contains(title, S_analysis))]]

\* the page holds [Apply: Backend Engineer](https://boards.greenhouse.io/acme/123)
\* and [Contact Us](mailto:hr@acme.com), and the keyword is "engineer"
C15_Case ==
    /\ role_keyword = 1
    /\ \E p \in DOMAIN board : board[p] = Link(1, 1)
    /\ \E p \in DOMAIN board : board[p] = Link(7, 5)
    /\ BoardPage = board

\* C15 as stated: on that page the run returns the greenhouse url and not the
\* mailto link.
C15_AlwaysIncluded ==
    (dpc = "done" /\ C15_Case) =>
        /\ 1 \in Range(dret.urls)
        /\ 5 \notin Range(dret.urls)

\* C15: on that page the mailto link is neither a candidate, nor fetched, nor
\* returned; the greenhouse url is a candidate once the page is parsed, and it is
\* returned exactly when it was title-checked, the title extracted from its page
\* contains the keyword, and no exception ended the run.
C15_IncludedWhenTitleMatches ==
    (dpc = "done" /\ C15_Case) =>
        /\ 5 \notin Range(dret.urls)
        /\ 5 \notin Range(checked)
        /\ \A j \in DOMAIN candidates : candidates[j].url # 5
        /\ BoardParsed => \E j \in DOMAIN candidates : candidates[j] = Cand(1, 1)
        /\ 1 \in Range(dret.urls) <=>
               /\ ~caught
               /\ \E k \in DOMAIN titles :
                     /\ checked[k] = 1
                     /\ titles[k] # 0
                     /\ TitleHasKeyword[1][titles[k]]

C15_Witness ==
    /\ dpc = "done"
    /\ C15_Case
    /\ dret.urls = <<1>>
    /\ titles = <<1>>

\* the links of the page that line 136 lets through
Unskipped(ms) ==
    SelectSeq(ms, LAMBDA m : /\ Len(Text(m.text)) >= 4
                              /\ ~Contains(Href(m.url), S_mailto)
                              /\ ~Contains(Href(m.url), S_linkedin))

\* the plausible-job-link filter
PlausibleOnly(ms) ==
    SelectSeq(ms, LAMBDA m : \/ Contains(Lower(Href(m.url)), S_greenhouse)
                              \/ Contains(Lower(Href(m.url)), S_lever)
                              \/ Contains(Lower(Href(m.url)), S_workday)
                              \/ Contains(Lower(Text(m.text)), S_apply))

RECURSIVE DedupFirst(_, _)
\* duplicate urls discarded, the first occurrence winning
DedupFirst(ms, urls) ==
    IF ms = <<>> THEN <<>>
    ELSE IF Head(ms).url \in urls THEN DedupFirst(Tail(ms), urls)
    ELSE <<Head(ms)>> \o DedupFirst(Tail(ms), urls \cup {Head(ms).url})

\* the links were just collected
JustParsed == BoardParsed /\ dpc \in {"scan", "done"} /\ checked = <<>>

\* C18 as stated: the candidates are the plausible links among the links left
\* after duplicate urls were discarded.
C18_DedupBeforePlausible ==
    JustParsed => candidates = PlausibleOnly(DedupFirst(Unskipped(FindAll(BoardPage)), {}))

\* C18: the candidates are the plausible links with duplicate urls discarded
\* among them, the first plausible occurrence winning; they do not change during
\* the scan.
C18_DedupAfterPlausible ==
    /\ JustParsed =>
          candidates = DedupFirst(PlausibleOnly(Unskipped(FindAll(BoardPage))), {})
    /\ dpc = "fetching" => candidates # <<>>

C18_Witness ==
    /\ dpc = "done"
    /\ board = <<Link(4, 2), Link(3, 2)>>
    /\ candidates = <<Cand(3, 2)>>
    /\ checked = <<2>>

\* the urls that contain greenhouse.io, lever.co or workday.com, in any case
JobBoardUrl ==
    [h \in DOMAIN HrefTable |->
        \/ Contains(Lower(HrefTable[h]), S_greenhouse)
        \/ Contains(Lower(HrefTable[h]), S_lever)
        \/ Contains(Lower(HrefTable[h]), S_workday)]

\* the display texts that contain "apply", in any case
ApplyText == [t \in DOMAIN TextTable |-> Contains(Lower(TextTable[t]), S_apply)]

\* the link with text t and url h is a plausible job link
PlausibleLink(t, h) == JobBoardUrl[h] \/ ApplyText[t]

\* the urls of the plausible job links of the board page
PlausibleUrls ==
    {board[p].href : p \in {q \in DOMAIN board :
        board[q].kind = "link" /\ PlausibleLink(board[q].text, board[q].href)}}

\* C19: every url handed to the title extraction, every candidate and every
\* returned url is the target of a plausible job link of the board page.
C19_OnlyPlausibleChecked ==
    /\ Range(checked) \subseteq PlausibleUrls
    /\ Range(matched_urls) \subseteq PlausibleUrls
    /\ Range(dret.urls) \subseteq PlausibleUrls
    /\ \A j \in DOMAIN candidates :
          PlausibleLink(candidates[j].text, candidates[j].url)
    /\ fcaller = "title" => furl \in PlausibleUrls

C19_Witness ==
    /\ dpc = "done"
    /\ \E p \in DOMAIN board : board[p] = Link(4, 8)
    /\ Len(checked) = 3
    /\ 8 \notin Range(checked)
    /\ dret.urls # <<>>

\* C20: a scanned candidate is among the matches exactly when a title was
\* extracted from its page and that title has the keyword.
C20_MatchIffTitleHasKeyword ==
    /\ Len(titles) = Len(verdicts)
    /\ Len(titles) <= Len(checked)
    /\ \A k \in DOMAIN titles :
          /\ verdicts[k] <=> (titles[k] # 0 /\ TitleHasKeyword[role_keyword][titles[k]])
          /\ checked[k] \in Range(matched_urls) <=> verdicts[k]

C20_Witness ==
    /\ dpc = "done"
    /\ role_keyword = 3
    /\ \E k \in DOMAIN titles : titles[k] = 4 /\ checked[k] \in Range(dret.urls)
    /\ \E k \in DOMAIN titles : titles[k] \notin {0, 5} /\ checked[k] \notin Range(dret.urls)

C16_PersistedSalariesValid ==
    /\ \A i \in DOMAIN comp_data :
          /\ comp_data[i].salary_max > 0
          /\ comp_data[i].salary_min <= comp_data[i].salary_max
    /\ \A r \in Reqs : \A i \in DOMAIN wsession[r] :
          /\ wsession[r][i].salary_max > 0
          /\ wsession[r][i].salary_min <= wsession[r][i].salary_max

C16_Witness ==
    /\ \A r \in Reqs : wpc[r] = "done"
    /\ wroute[1] = "bulk"
    /\ wroute[2] = "seed"
    /\ Len(comp_data) >= 2
    /\ \A i \in DOMAIN comp_data :
          comp_data[i].salary_min = 200000 /\ comp_data[i].salary_max = 250000

\* C24: when every attempt of fetch_page_content raises, the call waits 1, 2, 4,
\* ... seconds (2^a after attempt a) between the attempts, makes retry_count
\* requests in all and returns None after the last one without a wait.
C24_BackoffOnException ==
    (fpc \in {"loop", "done"} /\ \A k \in DOMAIN fseen : fseen[k] = 0) =>
        /\ \A a \in DOMAIN waits : waits[a] = 2 ^ (a - 1)
        /\ requests <= retry_count
        /\ Len(waits) = (IF fpc = "done" /\ requests > 0 THEN requests - 1 ELSE requests)
        /\ fpc = "done" =>
              /\ requests = retry_count
              /\ fret = FNone

C24_Witness ==
    /\ fpc = "done"
    /\ retry_count = 4
    /\ fseen = <<0, 0, 0, 0>>
    /\ waits = <<1, 2, 4>>
    /\ fret = FNone

\* C26: the wait that follows attempt a depends on a and on the failure of that
\* attempt alone: 2 * 2^a seconds after a 429 and 2^a seconds after an exception,
\* whatever failed before; every failed attempt but the last is followed by one
\* wait, and 429s and exceptions together make at most retry_count requests.
C26_SharedAttemptIndex ==
    /\ requests <= retry_count
    /\ requests = Len(fseen)
    /\ Len(waits) <= Len(fseen)
    /\ \A j \in DOMAIN waits :
          /\ fseen[j] \in {0, 429}
          /\ waits[j] = (IF fseen[j] = 429 THEN 2 * (2 ^ (j - 1)) ELSE 2 ^ (j - 1))
    /\ \A j \in DOMAIN fseen :
          (j < Len(fseen) \/ fpc = "loop") => j \in DOMAIN waits

C26_Witness ==
    /\ fpc = "done"
    /\ retry_count = 4
    /\ fseen = <<0, 429, 0, 429>>
    /\ waits = <<1, 4, 4>>
    /\ fret = FNone

\* C25: when the model returns a JSON object the record keeps every key and
\* value of the object and gets "" for a missing job_title or company and 0 for
\* a missing min or max, so an object with the four keys comes back as it is;
\* any other response gives the default record.
C25_ObjectKeptDefaultsAdded ==
    (ppc = "done" /\ presp.kind = "content") =>
        IF presp.content.form = "dict"
        THEN LET obj == presp.content.obj IN
             /\ pret.kind = "return"
             /\ DOMAIN pret.val = DOMAIN obj \cup RequiredKeySet
             /\ \A k \in DOMAIN obj : pret.val[k] = obj[k]
             /\ \A k \in RequiredKeySet \ DOMAIN obj :
                   pret.val[k] = (IF k \in {"job_title", "company"} THEN JStr("") ELSE JNum(0))
             /\ RequiredKeySet \subseteq DOMAIN obj => pret.val = obj
        ELSE pret = Return([job_title |-> JStr(""), company |-> JStr(""),
                            min |-> JNum(0), max |-> JNum(0)])

C25_Witness ==
    /\ ppc = "done"
    /\ presp.kind = "content"
    /\ presp.content.form = "dict"
    /\ presp.content.obj =
          [job_title |-> JStr("Senior Backend Engineer"), company |-> JStr("Acme Corp"),
           min |-> JNum(150000), max |-> JNum(200000)]
    /\ pret.val = presp.content.obj

\* for each answer of the model, whether the lower-cased title holds the word
HasEngineer == [t \in DOMAIN RawTitleTable |-> Contains(Lower(CleanTitleTable[t]), S_engineer)]
HasEngineering ==
    [t \in DOMAIN RawTitleTable |-> Contains(Lower(CleanTitleTable[t]), S_engineering)]
HasAnalyst == [t \in DOMAIN RawTitleTable |-> Contains(Lower(CleanTitleTable[t]), S_analyst)]
HasAnalysis == [t \in DOMAIN RawTitleTable |-> Contains(Lower(CleanTitleTable[t]), S_analysis)]

\* C21 as stated: keyword "analysis" matches a title holding "analyst" and keyword
\* "engineering" matches a title holding "engineer", as keyword "analyst" matches
\* a title holding "analysis".
C21_BothDirections ==
    \A k \in DOMAIN titles :
        titles[k] # 0 =>
            /\ (role_keyword = 4 /\ HasAnalyst[titles[k]]) => verdicts[k]
            /\ (role_keyword = 5 /\ HasEngineer[titles[k]]) => verdicts[k]
            /\ (role_keyword = 3 /\ HasAnalysis[titles[k]]) => verdicts[k]

\* C21: the synonyms go one way: keyword "analyst" matches a title holding
\* "analysis" and keyword "engineer" one holding "engineering", while keyword
\* "analysis" matches only titles holding "analysis" and keyword "engineering"
\* only titles holding "engineering".
C21_OneDirection ==
    \A k \in DOMAIN titles :
        titles[k] # 0 =>
            /\ (role_keyword = 3 /\ HasAnalysis[titles[k]]) => verdicts[k]
            /\ (role_keyword = 1 /\ HasEngineering[titles[k]]) => verdicts[k]
            /\ role_keyword = 4 => (verdicts[k] <=> HasAnalysis[titles[k]])
            /\ role_keyword = 5 => (verdicts[k] <=> HasEngineering[titles[k]])

C21_Witness ==
    /\ dpc = "done"
    /\ role_keyword = 4
    /\ \E k \in DOMAIN titles : titles[k] = 3 /\ ~verdicts[k]
    /\ \E k \in DOMAIN titles : titles[k] = 4 /\ verdicts[k]

\* the candidate checked last got no page or there is no credential
LastFailed ==
    /\ dpc \in {"scan", "done"}
    /\ fcaller = "title"
    /\ fpc = "done"
    /\ verdicts # <<>>
    /\ ~Truthy(fret) \/ ~openaiKey

\* C22: a candidate whose fetch or title extraction failed is no match, the
\* matches found before it are kept and the scan goes on to the next candidate;
\* a run that no exception ended has checked every candidate, or has 20
\* matches, and returns all the matches it found.
C22_FailureSkipsOneCandidate ==
    /\ Len(verdicts) = Len(titles)
    /\ \A k \in DOMAIN titles : titles[k] = 0 => ~verdicts[k]
    /\ LastFailed =>
          LET n == Len(verdicts) IN
          /\ ~verdicts[n]
          /\ titles[n] = 0
          /\ matched_urls = PickHits(SubSeq(checked, 1, n - 1), SubSeq(verdicts, 1, n - 1))
          /\ dpc = "done" => (caught \/ n = Len(candidates))
    /\ (dpc = "done" /\ ~caught /\ candidates # <<>>) =>
          /\ dret = DReturn(PickHits(checked, verdicts))
          /\ Len(checked) = Len(candidates) \/ TrueCount(verdicts) = 20

C22_Witness ==
    /\ dpc = "done"
    /\ openaiKey
    /\ Len(verdicts) = 3
    /\ verdicts[1] /\ ~verdicts[2] /\ verdicts[3]
    /\ titles[2] = 0
    /\ Len(dret.urls) = 2

\* C23: every pacing sleep lasts 0.5 s with the proxy credential and 3.5 s
\* without; one sleep lies between two consecutive title checks, and none
\* follows the candidate scanned last, whether or not the candidates matched.
C23_OneSleepBetweenChecks ==
    /\ \A j \in DOMAIN pauses : pauses[j] = (IF jinaKey THEN 500 ELSE 3500)
    /\ verdicts = <<>> => pauses = <<>>
    /\ dpc = "fetching" =>
          /\ Len(verdicts) = Len(checked) - 1
          /\ Len(pauses) = Len(checked) - 1
    /\ dpc = "scan" => Len(pauses) = Len(verdicts)
    /\ (dpc = "done" /\ verdicts # <<>>) => Len(pauses) = Len(verdicts) - 1

C23_Witness ==
    /\ dpc = "done"
    /\ ~jinaKey
    /\ Len(verdicts) = 3
    /\ verdicts[2] /\ ~verdicts[3]
    /\ pauses = <<3500, 3500>>

\* C27: without the chat-model credential no client is built and no model call is
\* made, nothing matches and the run returns the empty list; yet every candidate
\* is handed to the title extraction and fetched through the proxy, with the
\* pacing sleeps in between, unless an exception ends the run.
C27_NoCredentialStillFetches ==
    ~openaiKey =>
        /\ clients = 0
        /\ modelCalls = 0
        /\ matched_urls = <<>>
        /\ \A k \in DOMAIN verdicts : ~verdicts[k] /\ titles[k] = 0
        /\ (fcaller = "title" /\ fpc = "done") => requests >= 1
        /\ dpc = "done" =>
              /\ dret = DReturn(<<>>)
              /\ (~caught /\ candidates # <<>>) =>
                    /\ checked = CandidateUrls
                    /\ Len(pauses) = Len(candidates) - 1

C27_Witness ==
    /\ ~openaiKey
    /\ dpc = "done"
    /\ Len(candidates) = 3
    /\ checked = CandidateUrls
    /\ Len(pauses) = 2
    /\ faults = 0
    /\ dret = DReturn(<<>>)

\* for each answer of the model, whether the title extracted from it is empty
EmptyTitle == [t \in DOMAIN RawTitleTable |-> CleanTitleTable[t] = <<>>]

\* C28: an extracted title that is the empty string matches no keyword; with the
\* empty keyword a candidate matches exactly when a non-empty title was
\* extracted, and a run that no exception ended returns those candidates, the
\* first 20 of them at most.
C28_EmptyKeywordMatchesAnyTitle ==
    /\ \A k \in DOMAIN titles : (titles[k] # 0 /\ EmptyTitle[titles[k]]) => ~verdicts[k]
    /\ role_keyword = 6 =>
          /\ \A k \in DOMAIN titles :
                verdicts[k] <=> (titles[k] # 0 /\ ~EmptyTitle[titles[k]])
          /\ (dpc = "done" /\ ~caught /\ candidates # <<>>) =>
                /\ dret = DReturn(PickHits(checked, verdicts))
                /\ Len(dret.urls) <= 20
                /\ Len(checked) = Len(candidates) \/ Len(dret.urls) = 20

C28_Witness ==
    /\ dpc = "done"
    /\ role_keyword = 6
    /\ \E k \in DOMAIN titles : titles[k] \in {5, 7} /\ ~verdicts[k]
    /\ \E k \in DOMAIN titles : titles[k] = 6 /\ verdicts[k]

\* C29 as stated: comp_data never holds two rows with the same company_name and
\* role_title, however run_bulk_crawl and seed requests interleave.
C29_NoDuplicatePairs ==
    \A i, j \in DOMAIN comp_data :
        (/\ comp_data[i].company_name = comp_data[j].company_name
         /\ comp_data[i].role_title = comp_data[j].role_title) => i = j

\* the rows of part lie next to each other in rows, in the same order
Together(part, rows) ==
    \E i \in 0..Len(rows) :
        /\ i + Len(part) <= Len(rows)
        /\ \A k \in DOMAIN part : rows[i + k] = part[k]

\* C30: run_bulk_crawl accepts at most 4 records and persists none of them
\* before its one commit at the end; a request answered with success has
\* persisted exactly saved_count rows, together; a request whose commit failed
\* or whose loop an exception left has persisted none and answered an error.
C30_BatchAllOrNothing ==
    \A r \in Reqs :
        (wroute[r] = "bulk" /\ wpc[r] # "idle") =>
            /\ saved_count[r] + wleft[r] <= BulkLimit
            /\ wpc[r] \in {"loop", "commit"} =>
                  /\ persisted[r] = <<>>
                  /\ Len(wsession[r]) = saved_count[r]
                  /\ wret[r] = "pending"
            /\ wpc[r] = "done" =>
                  /\ wsession[r] = <<>>
                  /\ wret[r] \in {"ok", "error", "none"}
                  /\ wret[r] = "ok" =>
                        /\ Len(persisted[r]) = saved_count[r]
                        /\ Together(persisted[r], comp_data)
                  /\ wret[r] # "ok" => persisted[r] = <<>>

C30_Witness ==
    /\ \A r \in Reqs : wpc[r] = "done" /\ wroute[r] = "bulk"
    /\ wret[1] = "ok"
    /\ saved_count[1] = 2
    /\ Len(persisted[1]) = 2
    /\ wret[2] = "error"
    /\ saved_count[2] >= 1
    /\ comp_data = persisted[1]

====
